---- MODULE Spec2Model ----
(***************************************************************************)
(* FileIcon: the icon conversion server (POST /api/convert,                *)
(* GET /api/download/:filename, the 5-minute cleanup timers) and its ICNS  *)
(* encoder buildIcns.                                                      *)
(*                                                                         *)
(* Text is a sequence of one-character strings, a Buffer is a sequence of  *)
(* bytes 0..255, the output directory is a function from the paths of the  *)
(* files that exist to their contents.                                     *)
(***************************************************************************)
EXTENDS Integers, Sequences, FiniteSets, TLC

\* ------------------------------------------------------------------ bounds

\* convert requests the server receives in one run
MaxRequests == 2
\* convert requests in a run in which downloads are followed
MaxStored == 1
\* distinct source images that are uploaded
MaxImages == 2
\* the clock stops here (milliseconds after Epoch)
MaxNow == 300000
\* the runs that follow the cleanup timers: convert requests, and callbacks
\* in which an unlink throws
MaxCleanupRequests == 3
MaxFaults == 1
\* buildIcns on its own: entries per call, bytes per payload
MaxEntries == 2
MaxPayload == 1

\* ------------------------------------------------------------ text, bytes

Digits36 ==
  << "0", "1", "2", "3", "4", "5", "6", "7", "8", "9", "a", "b", "c", "d", "e",
     "f", "g", "h", "i", "j", "k", "l", "m", "n", "o", "p", "q", "r", "s", "t",
     "u", "v", "w", "x", "y", "z" >>

\* the character class [a-z0-9]
LowerAlnum == { Digits36[i] : i \in 1..36 }

\* Number.prototype.toString(36) of a non-negative integer
RECURSIVE ToString36(_)
ToString36(n) ==
  IF n < 36 THEN << Digits36[n + 1] >>
  ELSE ToString36(n \div 36) \o << Digits36[(n % 36) + 1] >>

\* the ASCII code of a digit or a lower-case letter, the low 7 bits that
\* Buffer.write(..., "ascii") stores for it
Ord(c) ==
  LET i == CHOOSE k \in 1..36 : Digits36[k] = c
  IN  IF i <= 10 THEN 47 + i ELSE 86 + i

\* Buffer.writeUInt32BE: the four bytes of v, most significant first
UInt32BE(v) ==
  << (v \div 16777216) % 256, (v \div 65536) % 256, (v \div 256) % 256, v % 256 >>

\* Buffer.write(str, offset, 4, "ascii") into a zero-filled buffer: at most
\* four characters are stored, the bytes it does not reach stay 0
WriteAscii4(str) ==
  [ k \in 1..4 |-> IF k <= Len(str) THEN Ord(str[k]) ELSE 0 ]

\* ------------------------------------------------------------ size tables

ICO_SIZES == << 16, 24, 32, 48, 64, 128, 256 >>

ICNS_SIZES ==
  << [size |-> 16, osType |-> << "i", "c", "p", "4" >>],
     [size |-> 32, osType |-> << "i", "c", "p", "5" >>],
     [size |-> 64, osType |-> << "i", "c", "p", "6" >>],
     [size |-> 128, osType |-> << "i", "c", "0", "7" >>],
     [size |-> 256, osType |-> << "i", "c", "0", "8" >>],
     [size |-> 512, osType |-> << "i", "c", "0", "9" >>],
     [size |-> 1024, osType |-> << "i", "c", "1", "0" >>] >>

\* ---------------------------------------------------------------- buildIcns

\* the first loop: totalSize = 8 + sum of (8 + entry.data.length)
RECURSIVE TotalSize(_)
TotalSize(pngBuffers) ==
  IF pngBuffers = << >> THEN 8
  ELSE TotalSize(Tail(pngBuffers)) + 8 + Len(Head(pngBuffers).data)

\* a length field that leaves the entry's own header out
EntryLengthFieldPayloadOnly(entry) == Len(entry.data)

\* one pass of the second loop: tag, length field, payload
EntryLengthField(entry) == Len(entry.data) + 8

WriteEntry(entry) ==
  WriteAscii4(entry.osType) \o UInt32BE(EntryLengthField(entry)) \o entry.data

RECURSIVE WriteEntries(_)
WriteEntries(pngBuffers) ==
  IF pngBuffers = << >> THEN << >>
  ELSE WriteEntry(Head(pngBuffers)) \o WriteEntries(Tail(pngBuffers))

\* buildIcns returns a buffer for every argument: it has no throw statement,
\* and Buffer.alloc and writeUInt32BE only throw from 2^32 bytes on
buildIcns(pngBuffers) ==
  [ threw |-> FALSE,
    buf |-> WriteAscii4(<< "i", "c", "n", "s" >>)
            \o UInt32BE(TotalSize(pngBuffers))
            \o WriteEntries(pngBuffers) ]

\* ------------------------------------------------- sharp, png-to-ico (external)

Images == 1..MaxImages

\* sharp(imageBuffer).resize(size, size, ...).png().toBuffer() when it resolves:
\* a PNG that is a function of the source image and of the target size (the
\* image, then the edge length in two bytes)
Resize(imageBuffer, size) == << imageBuffer, size \div 256, size % 256 >>

\* the edge length a PNG of Resize was made for
PngEdge(png) == png[2] * 256 + png[3]

UInt32LE(v) ==
  << v % 256, (v \div 256) % 256, (v \div 65536) % 256, (v \div 16777216) % 256 >>

RECURSIVE ConcatAll(_)
ConcatAll(bufs) ==
  IF bufs = << >> THEN << >> ELSE Head(bufs) \o ConcatAll(Tail(bufs))

\* pngToIco(pngs) when it resolves: ICONDIR (reserved, type 1, count), one
\* 16-byte ICONDIRENTRY per image in the order given (edge 256 is stored as 0),
\* then the payloads in the same order
pngToIco(pngs) ==
  LET n == Len(pngs)
      offset(i) == 6 + 16 * n + Len(ConcatAll(SubSeq(pngs, 1, i - 1)))
      dirEntry(i) ==
        << PngEdge(pngs[i]) % 256, PngEdge(pngs[i]) % 256, 0, 0, 1, 0, 32, 0 >>
        \o UInt32LE(Len(pngs[i])) \o UInt32LE(offset(i))
  IN  << 0, 0, 1, 0, n % 256, n \div 256 >>
      \o ConcatAll([ i \in 1..n |-> dirEntry(i) ])
      \o ConcatAll(pngs)

\* ------------------------------------------------------------- file system

outputDir == << "server/output/" >>

\* path.join(outputDir, filename) for a filename without separators
PathJoin(dir, filename) == dir \o filename

\* fs.existsSync
ExistsSync(fs, path) == path \in DOMAIN fs

\* what fs.writeFileSync(path, data) can do.  "ok": the file holds data.
\* "EACCES": open fails, nothing changes.  "ENOSPC": the file was opened with
\* flag w (created or truncated) and the write failed before any byte was
\* stored.  The last two throw.
WriteOutcomes == { "ok", "EACCES", "ENOSPC" }

WriteFileSync(fs, path, data, by, outcome) ==
  CASE outcome = "ok" ->
         [ p \in DOMAIN fs \cup {path} |->
             IF p = path THEN [bytes |-> data, by |-> by] ELSE fs[p] ]
    [] outcome = "ENOSPC" ->
         [ p \in DOMAIN fs \cup {path} |->
             IF p = path THEN [bytes |-> << >>, by |-> by] ELSE fs[p] ]
    [] OTHER -> fs

\* what fs.unlinkSync(path) can do on a file that exists: remove it, or throw
\* (EPERM, EBUSY) and leave it
UnlinkOutcomes == { "ok", "EPERM" }

UnlinkSync(fs, path, outcome) ==
  IF outcome = "ok" THEN [ p \in DOMAIN fs \ {path} |-> fs[p] ] ELSE fs

\* ------------------------------------------------------------------- names

\* the pattern without its ^ anchor: some tail of the filename matches
FilenamePatternUnanchored(filename) ==
  \E s \in 1..Len(filename), k \in 1..Len(filename) :
    /\ s <= k
    /\ \A j \in s..k : filename[j] \in LowerAlnum
    /\ k + 1 <= Len(filename)
    /\ filename[k + 1] = "."
    /\ SubSeq(filename, k + 2, Len(filename))
         \in { << "i", "c", "o" >>, << "i", "c", "n", "s" >> }

\* /^[a-z0-9]+\.(ico|icns)$/.test(filename)
FilenamePattern(filename) ==
  \E k \in 1..Len(filename) :
    /\ \A j \in 1..k : filename[j] \in LowerAlnum
    /\ k + 1 <= Len(filename)
    /\ filename[k + 1] = "."
    /\ SubSeq(filename, k + 2, Len(filename))
         \in { << "i", "c", "o" >>, << "i", "c", "n", "s" >> }

\* path.extname(filename).slice(1): what follows the last dot
RECURSIVE ExtName(_)
ExtName(filename) ==
  IF filename = << >> THEN << >>
  ELSE IF filename[Len(filename)] = "." THEN << >>
  ELSE IF \A j \in 1..Len(filename) : filename[j] # "." THEN << >>
  ELSE ExtName(SubSeq(filename, 1, Len(filename) - 1)) \o << filename[Len(filename)] >>

IcoFilename(id) == id \o << ".", "i", "c", "o" >>
IcnsFilename(id) == id \o << ".", "i", "c", "n", "s" >>

\* `/api/download/${filename}` and the :filename parameter of such a URL
DownloadUrl(filename) == << "/api/download/" >> \o filename
FilenameParam(url) == Tail(url)

\* --------------------------------------------------------------------- time

\* Date.now() is Epoch + now.  Over the run every timestamp has the same
\* number of base-36 digits, as the timestamps of 1972..2059 have (8 digits).
Epoch == 46656

\* the delay of the cleanup timer, 5 * 60 * 1000 ms
RETENTION_MS == 300000

\* Math.random().toString(36).slice(2, 8): up to six base-36 digits
RandomSuffixes == { << "q" >>, << "7", "m" >> }

\* -------------------------------------------------------------------- state

VARIABLES
  now,       \* the clock: milliseconds since Epoch
  req,       \* per convert request: where its handler stands, and its locals
  files,     \* the output directory: path -> [bytes, by (the request that wrote)]
  timers,    \* the pending setTimeout callbacks
  fired,     \* the timers whose callback has run, and how it went
  failures,  \* the rejections and throws that happened: <<request, what>>
  dl,        \* the last GET /api/download exchange
  icnsIn,    \* buildIcns on its own: the argument
  icnsOut,   \* buildIcns on its own: what the call gave
  selectedFile,  \* Home: useState `file` (the image selected, or NullFile)
  preview,       \* Home: useState `preview`
  convertState,  \* Home: useState `convertState`
  icoUrl,        \* Home: useState `icoUrl`
  icnsUrl,       \* Home: useState `icnsUrl`
  fetches,       \* Home: the POST /api/convert calls awaiting their answer
  sent,          \* Home: the file of each handleConvert call so far
  reads          \* Home: the files a FileReader is reading

homeVars ==
  << selectedFile, preview, convertState, icoUrl, icnsUrl, fetches, sent, reads >>

vars ==
  << now, req, files, timers, fired, failures, dl, icnsIn, icnsOut, homeVars >>

NullFile == 0
Null == << >>

\* the Home page as it mounts
HomeInit ==
  /\ selectedFile = NullFile
  /\ preview = Null
  /\ convertState = "idle"
  /\ icoUrl = Null
  /\ icnsUrl = Null
  /\ fetches = {}
  /\ sent = << >>
  /\ reads = {}

Requests == 1..MaxRequests

NoFile == 0
NoBuffer == << >>
\* a promise of a fan-out that has not settled
Pending == << >>
PendingEntry == [osType |-> << >>, data |-> << >>]

NoBody == [icoUrl |-> << >>, icnsUrl |-> << >>, text |-> ""]

IdleRequest ==
  [ pc |-> "idle", file |-> NoFile, id |-> << >>,
    pngBuffersForIco |-> << >>, icoBuffer |-> NoBuffer,
    icnsEntries |-> << >>, icnsBuffer |-> NoBuffer,
    status |-> 0, body |-> NoBody ]

NoDownload ==
  [ filename |-> << >>, status |-> 0, contentType |-> "", body |-> NoBuffer,
    accessed |-> << >> ]

NotCalled == [threw |-> FALSE, buf |-> << >>]

Init ==
  /\ now = 0
  /\ req = [ r \in Requests |-> IdleRequest ]
  /\ files = << >>
  /\ timers = {}
  /\ fired = {}
  /\ failures = {}
  /\ dl = NoDownload
  /\ icnsIn = << >>
  /\ icnsOut = NotCalled
  /\ HomeInit

\* ------------------------------------------------------- POST /api/convert

\* a catch block that sends the message without setting the status
CatchStatusUnset(rq, message) ==
  [ rq EXCEPT !.pc = "done", !.status = 200,
              !.body = [icoUrl |-> << >>, icnsUrl |-> << >>, text |-> message] ]

\* the catch block: 500 with the error's message (every message is "error")
Catch(rq, message) ==
  [ rq EXCEPT !.pc = "done", !.status = 500,
              !.body = [icoUrl |-> << >>, icnsUrl |-> << >>, text |-> message] ]

\* a fan-in that stores each value where the next free place is, in the order
\* of completion
FanInByCompletion(results, i, value, pending) ==
  LET k == CHOOSE j \in 1..Len(results) :
             results[j] = pending /\ \A h \in 1..(j - 1) : results[h] # pending
  IN  [ results EXCEPT ![k] = value ]

\* Promise.all: the value of the promise at index i lands at index i
FanIn(results, i, value, pending) == [ results EXCEPT ![i] = value ]

AllSettled(results, pending) == \A i \in 1..Len(results) : results[i] # pending

\* Date.now().toString(36) + Math.random().toString(36).slice(2, 8)
NewId(suffix) == ToString36(Epoch + now) \o suffix

\* the images uploaded so far
Uploaded == { req[r].file : r \in Requests } \ {NoFile}

\* the handler up to its first await: the 400 answer, or the id and the ICO
\* fan-out.  Requests are numbered in their order of arrival, images in the
\* order of their first upload.
Start(r, file, suffix) ==
  /\ req[r].pc = "idle"
  /\ IF r = 1 THEN TRUE ELSE req[r - 1].pc # "idle"
  /\ file = NoFile \/ file \in Uploaded \/ file = Cardinality(Uploaded) + 1
  /\ IF file = NoFile
     THEN req' = [ req EXCEPT ![r] =
                     [ @ EXCEPT !.pc = "done", !.status = 400,
                                !.body = [NoBody EXCEPT !.text = "No image file provided"] ] ]
     ELSE req' = [ req EXCEPT ![r] =
                     [ @ EXCEPT !.pc = "resizeIco", !.file = file, !.id = NewId(suffix),
                                !.pngBuffersForIco = [ i \in 1..Len(ICO_SIZES) |-> Pending ] ] ]
  /\ UNCHANGED << now, files, timers, fired, failures, dl, icnsIn, icnsOut, homeVars >>

\* what follows `await Promise.all(ICO_SIZES.map(...))` once it has resolved
IcoFanOutResolved(rq) == [ rq EXCEPT !.pc = "encodeIco" ]

\* one resize of the ICO fan-out resolves; the last one resolves Promise.all
ResizeIcoResolved(r, i) ==
  /\ req[r].pc = "resizeIco"
  /\ req[r].pngBuffersForIco[i] = Pending
  /\ LET got == FanIn(req[r].pngBuffersForIco, i, Resize(req[r].file, ICO_SIZES[i]), Pending)
         rq == [ req[r] EXCEPT !.pngBuffersForIco = got ]
     IN  req' = [ req EXCEPT ![r] = IF AllSettled(got, Pending) THEN IcoFanOutResolved(rq) ELSE rq ]
  /\ UNCHANGED << now, files, timers, fired, failures, dl, icnsIn, icnsOut, homeVars >>

\* one resize of the ICO fan-out rejects: Promise.all rejects at once
ResizeIcoRejected(r, i) ==
  /\ req[r].pc = "resizeIco"
  /\ req[r].pngBuffersForIco[i] = Pending
  /\ req' = [ req EXCEPT ![r] = Catch(@, "error") ]
  /\ failures' = failures \cup { << r, "resize" >> }
  /\ UNCHANGED << now, files, timers, fired, dl, icnsIn, icnsOut, homeVars >>

\* the ICO fan-out as one await: all seven resolve, or the first rejection
IcoResized(r, ok) ==
  /\ req[r].pc = "resizeIco"
  /\ IF ok
     THEN /\ req' = [ req EXCEPT ![r] = IcoFanOutResolved(
                        [ @ EXCEPT !.pngBuffersForIco =
                            [ i \in 1..Len(ICO_SIZES) |-> Resize(req[r].file, ICO_SIZES[i]) ] ]) ]
          /\ UNCHANGED failures
     ELSE /\ req' = [ req EXCEPT ![r] = Catch(@, "error") ]
          /\ failures' = failures \cup { << r, "resize" >> }
  /\ UNCHANGED << now, files, timers, fired, dl, icnsIn, icnsOut, homeVars >>

\* `await pngToIco(...)` settles; on success the .ico file is written and the
\* ICNS fan-out starts
IcoEncoded(r, ok, w) ==
  /\ req[r].pc = "encodeIco"
  /\ IF ~ok
     THEN /\ req' = [ req EXCEPT ![r] = Catch(@, "error") ]
          /\ failures' = failures \cup { << r, "pngToIco" >> }
          /\ UNCHANGED files
     ELSE LET icoBuffer == pngToIco(req[r].pngBuffersForIco)
              icoPath == PathJoin(outputDir, IcoFilename(req[r].id))
              rq == [ req[r] EXCEPT !.icoBuffer = icoBuffer ]
          IN  /\ files' = WriteFileSync(files, icoPath, icoBuffer, r, w)
              /\ IF w = "ok"
                 THEN /\ req' = [ req EXCEPT ![r] =
                           [ rq EXCEPT !.pc = "resizeIcns",
                                       !.icnsEntries = [ i \in 1..Len(ICNS_SIZES) |-> PendingEntry ] ] ]
                      /\ UNCHANGED failures
                 ELSE /\ req' = [ req EXCEPT ![r] = Catch(rq, "error") ]
                      /\ failures' = failures \cup { << r, "writeIco" >> }
  /\ UNCHANGED << now, timers, fired, dl, icnsIn, icnsOut, homeVars >>

\* the callback of the ICNS fan-out: { osType, data }
IcnsEntry(file, i) ==
  [ osType |-> ICNS_SIZES[i].osType, data |-> Resize(file, ICNS_SIZES[i].size) ]

\* what follows `await Promise.all(ICNS_SIZES.map(...))` once it has resolved:
\* buildIcns, the .icns file, the timer, the answer
IcnsFanOutResolved(r, rq, w) ==
  LET icnsBuffer == buildIcns(rq.icnsEntries).buf
      icoPath == PathJoin(outputDir, IcoFilename(rq.id))
      icnsPath == PathJoin(outputDir, IcnsFilename(rq.id))
      rq2 == [ rq EXCEPT !.icnsBuffer = icnsBuffer ]
  IN  /\ files' = WriteFileSync(files, icnsPath, icnsBuffer, r, w)
      /\ IF w = "ok"
         THEN /\ timers' = timers \cup
                   { [ icoPath |-> icoPath, icnsPath |-> icnsPath, id |-> rq.id,
                       due |-> now + RETENTION_MS, by |-> r ] }
              /\ req' = [ req EXCEPT ![r] =
                   [ rq2 EXCEPT !.pc = "done", !.status = 200,
                                !.body = [ icoUrl |-> DownloadUrl(IcoFilename(rq.id)),
                                           icnsUrl |-> DownloadUrl(IcnsFilename(rq.id)),
                                           text |-> "" ] ] ]
              /\ UNCHANGED failures
         ELSE /\ req' = [ req EXCEPT ![r] = Catch(rq2, "error") ]
              /\ failures' = failures \cup { << r, "writeIcns" >> }
              /\ UNCHANGED timers

\* one resize of the ICNS fan-out resolves; the last one resolves Promise.all
ResizeIcnsResolved(r, i, w) ==
  /\ req[r].pc = "resizeIcns"
  /\ req[r].icnsEntries[i] = PendingEntry
  /\ LET got == FanIn(req[r].icnsEntries, i, IcnsEntry(req[r].file, i), PendingEntry)
         rq == [ req[r] EXCEPT !.icnsEntries = got ]
     IN  IF AllSettled(got, PendingEntry)
         THEN IcnsFanOutResolved(r, rq, w)
         ELSE /\ req' = [ req EXCEPT ![r] = rq ]
              /\ UNCHANGED << files, timers, failures >>
  /\ UNCHANGED << now, fired, dl, icnsIn, icnsOut, homeVars >>

ResizeIcnsRejected(r, i) ==
  /\ req[r].pc = "resizeIcns"
  /\ req[r].icnsEntries[i] = PendingEntry
  /\ req' = [ req EXCEPT ![r] = Catch(@, "error") ]
  /\ failures' = failures \cup { << r, "resize" >> }
  /\ UNCHANGED << now, files, timers, fired, dl, icnsIn, icnsOut, homeVars >>

\* the ICNS fan-out as one await
IcnsResized(r, ok, w) ==
  /\ req[r].pc = "resizeIcns"
  /\ IF ok
     THEN IcnsFanOutResolved(r,
            [ req[r] EXCEPT !.icnsEntries =
                [ i \in 1..Len(ICNS_SIZES) |-> IcnsEntry(req[r].file, i) ] ], w)
     ELSE /\ req' = [ req EXCEPT ![r] = Catch(@, "error") ]
          /\ failures' = failures \cup { << r, "resize" >> }
          /\ UNCHANGED << files, timers >>
  /\ UNCHANGED << now, fired, dl, icnsIn, icnsOut, homeVars >>

\* ------------------------------------------------------- the cleanup timer

\* the setTimeout callback: try { unlink the .ico if it exists; unlink the
\* .icns if it exists } catch {}: a throw of the first unlink skips the second
CleanupCallback(fs, t, u1, u2) ==
  LET icoThrows == ExistsSync(fs, t.icoPath) /\ u1 # "ok"
      afterIco == IF ExistsSync(fs, t.icoPath) THEN UnlinkSync(fs, t.icoPath, u1) ELSE fs
  IN  IF icoThrows THEN afterIco
      ELSE IF ExistsSync(afterIco, t.icnsPath) THEN UnlinkSync(afterIco, t.icnsPath, u2)
      ELSE afterIco

\* whether the body of the try throws: an unlinkSync that was reached threw
CleanupBodyThrows(fs, t, u1, u2) ==
  \/ ExistsSync(fs, t.icoPath) /\ u1 # "ok"
  \/ /\ ~(ExistsSync(fs, t.icoPath) /\ u1 # "ok")
     /\ ExistsSync(fs, t.icnsPath) /\ u2 # "ok"

\* a callback without the try: what its body throws leaves it
CleanupRaisesUncaught(fs, t, u1, u2) == CleanupBodyThrows(fs, t, u1, u2)

\* whether an error leaves the callback: `catch {}` takes whatever the body
\* throws
CleanupRaises(fs, t, u1, u2) == CleanupBodyThrows(fs, t, u1, u2) /\ FALSE

\* the record of a callback that has run: the timer, which of its two files
\* it found, whether its body threw, whether it raised
FiredTimer(fs, t, u1, u2) ==
  [ icoPath |-> t.icoPath, icnsPath |-> t.icnsPath, id |-> t.id, due |-> t.due,
    by |-> t.by,
    found |-> { p \in { t.icoPath, t.icnsPath } : ExistsSync(fs, p) },
    threw |-> CleanupBodyThrows(fs, t, u1, u2),
    raised |-> CleanupRaises(fs, t, u1, u2) ]

TimerFire(t, u1, u2) ==
  /\ t \in timers
  /\ now >= t.due
  /\ files' = CleanupCallback(files, t, u1, u2)
  /\ timers' = timers \ {t}
  /\ fired' = fired \cup { FiredTimer(files, t, u1, u2) }
  /\ UNCHANGED << now, req, failures, dl, icnsIn, icnsOut, homeVars >>

\* time passes, a retention window at a time (two requests tell the same
\* millisecond apart by their random suffix alone)
Tick(d) ==
  /\ now + d <= MaxNow
  /\ now' = now + d
  /\ UNCHANGED << req, files, timers, fired, failures, dl, icnsIn, icnsOut, homeVars >>

\* ------------------------------------------------ GET /api/download/:filename

\* a handler that sends the file without the existence check
DownloadHandlerUnchecked(fs, filename) ==
  LET filePath == PathJoin(outputDir, filename)
  IN  IF ~FilenamePattern(filename)
      THEN [ filename |-> filename, status |-> 400, contentType |-> "",
             body |-> NoBuffer, accessed |-> << >> ]
      ELSE [ filename |-> filename, status |-> 200,
             contentType |-> IF ExtName(filename) = << "i", "c", "o" >>
                             THEN "image/x-icon" ELSE "image/icns",
             body |-> IF filePath \in DOMAIN fs THEN fs[filePath].bytes ELSE NoBuffer,
             accessed |-> << "sendFile" >> ]

\* the handler: the answer, and the storage calls it made on the way
DownloadHandler(fs, filename) ==
  LET filePath == PathJoin(outputDir, filename)
  IN  IF ~FilenamePattern(filename)
      THEN [ filename |-> filename, status |-> 400, contentType |-> "",
             body |-> NoBuffer, accessed |-> << >> ]
      ELSE IF ~ExistsSync(fs, filePath)
      THEN [ filename |-> filename, status |-> 404, contentType |-> "",
             body |-> NoBuffer, accessed |-> << "existsSync" >> ]
      ELSE [ filename |-> filename, status |-> 200,
             contentType |-> IF ExtName(filename) = << "i", "c", "o" >>
                             THEN "image/x-icon" ELSE "image/icns",
             body |-> fs[filePath].bytes,
             accessed |-> << "existsSync", "sendFile" >> ]

\* the ids the server has handed out so far
IssuedIds == { req[r].id : r \in { q \in Requests : req[q].pc # "idle" /\ req[q].file # NoFile } }

\* the ids the server would issue at this instant: a client can guess them
GuessableIds == { NewId(suffix) : suffix \in RandomSuffixes }

\* filenames a client asks for: the two of the spec's examples, a well-formed
\* one of no request, those of the ids issued and those of the ids it guesses
OtherFilenames ==
  { << ".", ".", "/", "e", "t", "c", "/", "p", "a", "s", "s", "w", "d", ".", "i", "c", "o" >>,
    << "A", "B", "C", "1", "2", "3", ".", "e", "x", "e" >>,
    << "n", "o", "n", "e", ".", "i", "c", "n", "s" >> }

RequestedFilenames ==
  OtherFilenames
  \cup { IcoFilename(id) : id \in IssuedIds \cup GuessableIds }
  \cup { IcnsFilename(id) : id \in IssuedIds \cup GuessableIds }

Download(filename) ==
  /\ dl' = DownloadHandler(files, filename)
  /\ UNCHANGED << now, req, files, timers, fired, failures, icnsIn, icnsOut, homeVars >>

\* ------------------------------------------------------------ the server

Next ==
  \/ \E r \in Requests, file \in Images \cup {NoFile}, suffix \in RandomSuffixes :
       Start(r, file, suffix)
  \/ \E r \in Requests, ok \in BOOLEAN : IcoResized(r, ok)
  \/ \E r \in Requests, ok \in BOOLEAN, w \in WriteOutcomes : IcoEncoded(r, ok, w)
  \/ \E r \in Requests, ok \in BOOLEAN, w \in WriteOutcomes : IcnsResized(r, ok, w)
  \/ \E t \in timers, u1 \in UnlinkOutcomes, u2 \in UnlinkOutcomes : TimerFire(t, u1, u2)
  \/ \E d \in { RETENTION_MS } : Tick(d)

Spec == Init /\ [][Next]_vars

\* ------------------------------------------- the server with its downloads

NextDownload ==
  \/ \E r \in 1..MaxStored, file \in Images \cup {NoFile}, suffix \in RandomSuffixes :
       Start(r, file, suffix)
  \/ \E r \in 1..MaxStored, ok \in BOOLEAN : IcoResized(r, ok)
  \/ \E r \in 1..MaxStored, ok \in BOOLEAN, w \in WriteOutcomes : IcoEncoded(r, ok, w)
  \/ \E r \in 1..MaxStored, ok \in BOOLEAN, w \in WriteOutcomes : IcnsResized(r, ok, w)
  \/ \E t \in timers, u1 \in UnlinkOutcomes, u2 \in UnlinkOutcomes : TimerFire(t, u1, u2)
  \/ \E d \in { RETENTION_MS } : Tick(d)
  \/ \E filename \in RequestedFilenames : Download(filename)

SpecDownload == Init /\ [][NextDownload]_vars

\* ------------------------------------- the server with its cleanup timers

\* the callbacks in which an unlinkSync has thrown
Faults == Cardinality({ t \in fired : t.threw })

CanFail == Faults < MaxFaults

InitCleanup ==
  /\ now = 0
  /\ req = [ r \in Requests \cup 1..MaxCleanupRequests |-> IdleRequest ]
  /\ files = << >>
  /\ timers = {}
  /\ fired = {}
  /\ failures = {}
  /\ dl = NoDownload
  /\ icnsIn = << >>
  /\ icnsOut = NotCalled
  /\ HomeInit

\* every request uploads the same image and every conversion goes through
\* (failing conversions are followed in Spec); the unlinks that throw are
\* counted
NextCleanup ==
  \/ \E r \in 1..MaxCleanupRequests, suffix \in RandomSuffixes : Start(r, 1, suffix)
  \/ \E r \in 1..MaxCleanupRequests : IcoResized(r, TRUE)
  \/ \E r \in 1..MaxCleanupRequests : IcoEncoded(r, TRUE, "ok")
  \/ \E r \in 1..MaxCleanupRequests : IcnsResized(r, TRUE, "ok")
  \/ \E t \in timers, u1 \in UnlinkOutcomes, u2 \in UnlinkOutcomes :
       ((u1 = "ok" /\ u2 = "ok") \/ CanFail) /\ TimerFire(t, u1, u2)
  \/ \E d \in { RETENTION_MS } : Tick(d)

SpecCleanup == InitCleanup /\ [][NextCleanup]_vars

\* --------------------------------- one convert request, resize by resize

NextFan ==
  \/ \E file \in Images \cup {NoFile}, suffix \in RandomSuffixes : Start(1, file, suffix)
  \/ \E i \in 1..Len(ICO_SIZES) : ResizeIcoResolved(1, i)
  \/ \E i \in 1..Len(ICO_SIZES) : ResizeIcoRejected(1, i)
  \/ \E ok \in BOOLEAN, w \in WriteOutcomes : IcoEncoded(1, ok, w)
  \/ \E i \in 1..Len(ICNS_SIZES), w \in WriteOutcomes : ResizeIcnsResolved(1, i, w)
  \/ \E i \in 1..Len(ICNS_SIZES) : ResizeIcnsRejected(1, i)

SpecFan == Init /\ [][NextFan]_vars

\* ------------------------------------------------------ buildIcns on its own

\* tags tried: three of the table, one outside it, one short, one long
TagsTried ==
  { << "i", "c", "p", "4" >>, << "i", "c", "0", "7" >>, << "i", "c", "1", "0" >>,
    << "a", "b", "c", "d" >>, << "i", "c" >>, << "i", "c", "o", "n", "s" >> }

PayloadBytes == { 1, 254 }

RECURSIVE SeqsUpTo(_, _)
SeqsUpTo(S, n) ==
  IF n = 0 THEN { << >> }
  ELSE LET shorter == SeqsUpTo(S, n - 1)
       IN  shorter \cup { Append(q, x) : q \in shorter, x \in S }

EntriesTried == [ osType : TagsTried, data : SeqsUpTo(PayloadBytes, MaxPayload) ]

InitIcns ==
  /\ now = 0
  /\ req = [ r \in Requests |-> IdleRequest ]
  /\ files = << >>
  /\ timers = {}
  /\ fired = {}
  /\ failures = {}
  /\ dl = NoDownload
  /\ icnsIn \in SeqsUpTo(EntriesTried, MaxEntries)
  /\ icnsOut = NotCalled
  /\ HomeInit

CallBuildIcns ==
  /\ icnsOut = NotCalled
  /\ icnsOut' = buildIcns(icnsIn)
  /\ UNCHANGED << now, req, files, timers, fired, failures, dl, icnsIn, homeVars >>

NextIcns == CallBuildIcns

SpecIcns == InitIcns /\ [][NextIcns]_vars

\* ------------------------------------------------------------ the Home page

\* the conversions the page may start over a run
MaxConverts == 2

\* what the server answers to the k-th POST /api/convert of the page: the two
\* download URLs of the id it issued for that request
ConversionId(k) == ToString36(Epoch + k) \o << "q" >>
ResponseData(k) ==
  [ icoUrl  |-> DownloadUrl(IcoFilename(ConversionId(k))),
    icnsUrl |-> DownloadUrl(IcnsFilename(ConversionId(k))) ]

\* reader.result of readAsDataURL(f)
DataUrl(f) == << "data:", f >>

\* how a fetch settles: a 2xx answer, another answer, or a rejection
FetchOutcomes == { "ok", "notOk", "rejected" }

\* handleFile(f), reached from the file input and from the drop zone, which are
\* rendered while no file is selected.  A file of another type or above 10 MB
\* is refused with a toast and nothing is set.
handleFile(f, valid) ==
  /\ selectedFile = NullFile
  /\ IF valid
       THEN /\ selectedFile' = f
            /\ convertState' = "idle"
            /\ icoUrl' = Null
            /\ icnsUrl' = Null
            /\ reads' = reads \cup {f}
       ELSE UNCHANGED << selectedFile, convertState, icoUrl, icnsUrl, reads >>
  /\ UNCHANGED << preview, fetches, sent >>
  /\ UNCHANGED << now, req, files, timers, fired, failures, dl, icnsIn, icnsOut >>

\* reader.onload of a FileReader started by handleFile
readerOnload(f) ==
  /\ f \in reads
  /\ reads' = reads \ {f}
  /\ preview' = DataUrl(f)
  /\ UNCHANGED << selectedFile, convertState, icoUrl, icnsUrl, fetches, sent >>
  /\ UNCHANGED << now, req, files, timers, fired, failures, dl, icnsIn, icnsOut >>

\* handleConvert up to its await: the button is rendered while a file is
\* selected and convertState is "idle" or "error"
handleConvert ==
  /\ selectedFile # NullFile
  /\ convertState \in { "idle", "error" }
  /\ Len(sent) < MaxConverts
  /\ convertState' = "converting"
  /\ sent' = Append(sent, selectedFile)
  /\ fetches' = fetches \cup { Len(sent) + 1 }
  /\ UNCHANGED << selectedFile, preview, icoUrl, icnsUrl, reads >>
  /\ UNCHANGED << now, req, files, timers, fired, failures, dl, icnsIn, icnsOut >>

\* the rest of handleConvert, after the await, for the k-th conversion: the
\* answer's URLs and "done", or "error" from the catch block.  Nothing aborts
\* the fetch and nothing compares the file it was sent for with the selection.
convertSettled(k, outcome) ==
  /\ k \in fetches
  /\ fetches' = fetches \ {k}
  /\ IF outcome = "ok"
       THEN /\ icoUrl' = ResponseData(k).icoUrl
            /\ icnsUrl' = ResponseData(k).icnsUrl
            /\ convertState' = "done"
       ELSE /\ convertState' = "error"
            /\ UNCHANGED << icoUrl, icnsUrl >>
  /\ UNCHANGED << selectedFile, preview, sent, reads >>
  /\ UNCHANGED << now, req, files, timers, fired, failures, dl, icnsIn, icnsOut >>

\* handleReset, from the remove button of the preview (rendered whenever a file
\* is selected) and from "Convert another image"
handleReset ==
  /\ selectedFile # NullFile
  /\ selectedFile' = NullFile
  /\ preview' = Null
  /\ convertState' = "idle"
  /\ icoUrl' = Null
  /\ icnsUrl' = Null
  /\ UNCHANGED << fetches, sent, reads >>
  /\ UNCHANGED << now, req, files, timers, fired, failures, dl, icnsIn, icnsOut >>

NextHome ==
  \/ \E f \in Images, valid \in BOOLEAN : handleFile(f, valid)
  \/ \E f \in Images : readerOnload(f)
  \/ handleConvert
  \/ \E k \in 1..MaxConverts, outcome \in FetchOutcomes : convertSettled(k, outcome)
  \/ handleReset

SpecHome == Init /\ [][NextHome]_vars

\* ==================================================================== claims

IcoPathOf(id) == PathJoin(outputDir, IcoFilename(id))
IcnsPathOf(id) == PathJoin(outputDir, IcnsFilename(id))

\* the requests that carried an image and have been answered
Finished == { r \in Requests : req[r].pc = "done" /\ req[r].file # NoFile }

\* C1: once a convert request has finished, with success or with a failure,
\* the output directory holds both <id>.ico and <id>.icns of its id or
\* neither of them.
C1_BothOrNeither ==
  \A r \in Finished :
    ExistsSync(files, IcoPathOf(req[r].id)) <=> ExistsSync(files, IcnsPathOf(req[r].id))

\* C2: every file a convert request wrote into the output directory has a
\* deletion timer registered for it, whatever the outcome of the request: once
\* the request has finished, a file of it that is still there is the target
\* of a pending timer.
C2_EveryFileHasTimer ==
  \A r \in Finished :
    \A p \in DOMAIN files :
      files[p].by = r => \E t \in timers : p \in { t.icoPath, t.icnsPath }

\* C3: once the expiry timer of a converted artifact has fired, a download of
\* its id answers not-found for both kinds.
C3_ExpiredNotFound ==
  \A t \in fired :
    /\ DownloadHandler(files, IcoFilename(t.id)).status = 404
    /\ DownloadHandler(files, IcnsFilename(t.id)).status = 404

\* C4: ids are write-once: no step writes over a file that is stored, so a
\* file that exists before and after a step is the same file, written by the
\* same request.
C4_WriteOnce ==
  [][ \A p \in DOMAIN files : p \in DOMAIN files' => files'[p] = files[p] ]_vars

\* C5: put followed immediately by get round-trips: in the state in which a
\* convert request has just answered 200, downloading the two filenames of its
\* answer gives the ICO bytes and the ICNS bytes this request produced.
C5_PutGetRoundTrip ==
  [][ \A r \in Requests :
        (req[r].status = 0 /\ req'[r].status = 200) =>
          LET ico == DownloadHandler(files', FilenameParam(req'[r].body.icoUrl))
              icns == DownloadHandler(files', FilenameParam(req'[r].body.icnsUrl))
          IN  /\ ico.status = 200 /\ ico.body = req'[r].icoBuffer
              /\ icns.status = 200 /\ icns.body = req'[r].icnsBuffer ]_vars

\* the filenames of the form ^[a-z0-9]+\.(ico|icns)$: a non-empty stem of
\* lower-case letters and digits, a dot, ico or icns
WellFormedFilename(filename) ==
  \E stem \in { SubSeq(filename, 1, k) : k \in 1..Len(filename) } :
    /\ \A j \in 1..Len(stem) : stem[j] \in LowerAlnum
    /\ \/ filename = stem \o << ".", "i", "c", "o" >>
       \/ filename = stem \o << ".", "i", "c", "n", "s" >>

\* C6: a download whose filename does not match ^[a-z0-9]+\.(ico|icns)$ is
\* rejected before any storage access: no existence check, no file read, no
\* file bytes in the answer.
C6_RejectedBeforeStorage ==
  (dl.status # 0 /\ ~WellFormedFilename(dl.filename)) =>
    /\ dl.status = 400
    /\ dl.accessed = << >>
    /\ dl.body = NoBuffer

\* a download of a name outside the pattern (../etc/passwd.ico, ABC123.exe)
\* has been answered 400
C6_Witness ==
  /\ dl.status = 400
  /\ dl.filename \in OtherFilenames
  /\ ~WellFormedFilename(dl.filename)

\* ------------------------------------------------------- reading an ICNS

\* the value of four bytes read as a big-endian unsigned integer
ReadUInt32BE(b) == ((b[1] * 256 + b[2]) * 256 + b[3]) * 256 + b[4]

Malformed == [tag |-> << >>, data |-> << >>]

\* the chunks of a chunk stream, read front to back by their length fields;
\* a chunk whose length field does not fit ends the reading as Malformed
RECURSIVE ReadChunks(_)
ReadChunks(bytes) ==
  IF bytes = << >> THEN << >>
  ELSE IF Len(bytes) < 8 THEN << Malformed >>
  ELSE LET length == ReadUInt32BE(SubSeq(bytes, 5, 8))
       IN  IF length < 8 \/ length > Len(bytes) THEN << Malformed >>
           ELSE << [tag |-> SubSeq(bytes, 1, 4), data |-> SubSeq(bytes, 9, length)] >>
                \o ReadChunks(SubSeq(bytes, length + 1, Len(bytes)))

\* ASCII codes of the characters that occur in the tags
Ascii(c) ==
  CASE c = "0" -> 48 [] c = "1" -> 49 [] c = "4" -> 52 [] c = "5" -> 53
    [] c = "6" -> 54 [] c = "7" -> 55 [] c = "8" -> 56 [] c = "9" -> 57
    [] c = "a" -> 97 [] c = "b" -> 98 [] c = "c" -> 99 [] c = "d" -> 100
    [] c = "i" -> 105 [] c = "n" -> 110 [] c = "o" -> 111 [] c = "p" -> 112
    [] c = "s" -> 115

AsciiOf(str) == [ k \in 1..Len(str) |-> Ascii(str[k]) ]

RECURSIVE SumOfEntries(_)
SumOfEntries(entries) ==
  IF entries = << >> THEN 0
  ELSE 8 + Len(Head(entries).data) + SumOfEntries(Tail(entries))

Called == icnsOut # NotCalled

\* C7: the buffer of buildIcns starts with the magic icns, its big-endian
\* length field at bytes 4-7 is the length of the buffer, 8 + sum(8 + payload),
\* and what follows is, entry by entry and without padding, the entry's tag
\* (for a tag of 4 bytes), the length field 8 + payload length, the payload.
C7_IcnsLayout ==
  Called =>
    LET buf == icnsOut.buf
        chunks == ReadChunks(SubSeq(buf, 9, Len(buf)))
    IN  /\ ~icnsOut.threw
        /\ SubSeq(buf, 1, 4) = << 105, 99, 110, 115 >>
        /\ ReadUInt32BE(SubSeq(buf, 5, 8)) = Len(buf)
        /\ Len(buf) = 8 + SumOfEntries(icnsIn)
        /\ Len(chunks) = Len(icnsIn)
        /\ \A i \in 1..Len(icnsIn) :
             /\ chunks[i].data = icnsIn[i].data
             /\ Len(icnsIn[i].osType) = 4 => chunks[i].tag = AsciiOf(icnsIn[i].osType)

\* two entries with 4-byte tags and payloads of different lengths were encoded
C7_Witness ==
  /\ Called
  /\ Len(icnsIn) = 2
  /\ Len(icnsIn[1].osType) = 4 /\ Len(icnsIn[2].osType) = 4
  /\ Len(icnsIn[1].data) # Len(icnsIn[2].data)

TableTags == { ICNS_SIZES[i].osType : i \in 1..Len(ICNS_SIZES) }

\* C8: buildIcns called with no entry, or with an entry whose tag is not in
\* the table, fails with an error and produces no buffer.
C8_RejectsBadEntries ==
  (Called /\ (icnsIn = << >> \/ \E i \in 1..Len(icnsIn) : icnsIn[i].osType \notin TableTags))
    => (icnsOut.threw /\ icnsOut.buf = << >>)

\* the tables as the claim states them
IcoSizesAscending == << 16, 24, 32, 48, 64, 128, 256 >>
IcnsSizesAscending == << 16, 32, 64, 128, 256, 512, 1024 >>
IcnsTagsInOrder ==
  << << "i", "c", "p", "4" >>, << "i", "c", "p", "5" >>, << "i", "c", "p", "6" >>,
     << "i", "c", "0", "7" >>, << "i", "c", "0", "8" >>, << "i", "c", "0", "9" >>,
     << "i", "c", "1", "0" >> >>

\* C9: whatever order the resizes complete in, pngToIco is given the 7 bitmaps
\* of the sizes 16,24,32,48,64,128,256 in that order, and the ICNS container
\* holds exactly 7 entries, in the order 16..1024, each with the tag of its
\* size and the bitmap resized to that size.
C9_TableOrder ==
  \A r \in Requests :
    /\ req[r].pc = "encodeIco" =>
         req[r].pngBuffersForIco =
           [ i \in 1..7 |-> << req[r].file, IcoSizesAscending[i] \div 256,
                               IcoSizesAscending[i] % 256 >> ]
    /\ req[r].icnsBuffer # NoBuffer =>
         ReadChunks(SubSeq(req[r].icnsBuffer, 9, Len(req[r].icnsBuffer))) =
           [ i \in 1..7 |->
               [ tag |-> AsciiOf(IcnsTagsInOrder[i]),
                 data |-> << req[r].file, IcnsSizesAscending[i] \div 256,
                             IcnsSizesAscending[i] % 256 >> ] ]

\* a conversion went through: both encoders have run and the .icns is stored
C9_Witness ==
  /\ req[1].status = 200
  /\ ExistsSync(files, IcnsPathOf(req[1].id))
  /\ files[IcnsPathOf(req[1].id)].bytes = req[1].icnsBuffer

\* C10: a failure of a resize or of an encoder is propagated: the request
\* answers with an error, without download URLs; and it answers with the two
\* download URLs only after all 14 resizes and both encodings have succeeded.
C10_FailurePropagated ==
  \A r \in Requests :
    /\ (\E f \in failures : f[1] = r) =>
         /\ req[r].status = 500
         /\ req[r].body.icoUrl = << >> /\ req[r].body.icnsUrl = << >>
    /\ (req[r].status = 200 \/ req[r].body.icoUrl # << >> \/ req[r].body.icnsUrl # << >>) =>
         /\ ~\E f \in failures : f[1] = r
         /\ Len(req[r].pngBuffersForIco) = 7 /\ Len(req[r].icnsEntries) = 7
         /\ \A i \in 1..7 : req[r].pngBuffersForIco[i] # Pending
         /\ \A i \in 1..7 : req[r].icnsEntries[i] # PendingEntry
         /\ req[r].icoBuffer # NoBuffer /\ req[r].icnsBuffer # NoBuffer
         /\ req[r].body.icoUrl = DownloadUrl(IcoFilename(req[r].id))
         /\ req[r].body.icnsUrl = DownloadUrl(IcnsFilename(req[r].id))

\* a resize of the ICNS fan-out failed after the .ico had been encoded, and
\* the request was answered 500
C10_Witness ==
  /\ << 1, "resize" >> \in failures
  /\ req[1].icoBuffer # NoBuffer
  /\ req[1].status = 500

\* what precedes the first dot of a filename
RECURSIVE StemOf(_)
StemOf(filename) ==
  IF filename = << >> \/ Head(filename) = "." THEN << >>
  ELSE << Head(filename) >> \o StemOf(Tail(filename))

\* the ids that convert requests have drawn so far, read from the requests
EverIssued == { req[r].id : r \in Requests } \ { << >> }

\* C11: a download of a well-formed filename whose id no convert request has
\* issued answers not-found, without bytes.
C11_NeverIssuedNotFound ==
  (dl.status # 0 /\ WellFormedFilename(dl.filename) /\ StemOf(dl.filename) \notin EverIssued) =>
    /\ dl.status = 404
    /\ dl.body = NoBuffer

\* with files in the store, a download of a well-formed name of an id that was
\* never issued has been answered 404
C11_Witness ==
  /\ dl.status = 404
  /\ WellFormedFilename(dl.filename)
  /\ StemOf(dl.filename) \notin EverIssued
  /\ DOMAIN files # {}

\* the two paths of a timer
PathsOf(t) == { t.icoPath, t.icnsPath }

\* C12: when an expiry timer fires while one or both of its files are
\* already missing, the callback raises no error, and every file of another id
\* is in the store after the step exactly as it was before it.
C12_CleanupIdempotent ==
  [][ \A t \in fired' \ fired :
        t.found # PathsOf(t) =>
          /\ ~t.raised
          /\ DOMAIN files \ PathsOf(t) = DOMAIN files' \ PathsOf(t)
          /\ \A p \in DOMAIN files \ PathsOf(t) : files'[p] = files[p] ]_vars

\* a timer has fired that found one or both of its files missing, while both
\* files of another id are in the store
C12_Witness ==
  \E t \in fired :
    /\ t.found # PathsOf(t)
    /\ ~t.raised
    /\ \E r \in DOMAIN req :
         /\ req[r].status = 200
         /\ req[r].id # t.id
         /\ ExistsSync(files, IcoPathOf(req[r].id))
         /\ ExistsSync(files, IcnsPathOf(req[r].id))

\* the same with exactly one file missing
C12_OneMissing ==
  \E t \in fired : Cardinality(t.found) = 1 /\ ~t.raised

\* C13: on the Home page, whenever a file is selected and convertState is
\* "done", icoUrl and icnsUrl are both set and are the URLs the server returned
\* for a conversion of the file now selected, whatever the order of handleFile,
\* handleReset, handleConvert and the answers, a late answer included.
C13_DoneShowsUrlsOfSelectedFile ==
  (selectedFile # NullFile /\ convertState = "done") =>
    /\ icoUrl # Null
    /\ icnsUrl # Null
    /\ \E k \in 1..Len(sent) :
         /\ sent[k] = selectedFile
         /\ icoUrl = ResponseData(k).icoUrl
         /\ icnsUrl = ResponseData(k).icnsUrl

\* the page shows "done" for a file whose conversion was never requested
C13_DoneWithoutConversion ==
  ~ /\ selectedFile # NullFile
    /\ convertState = "done"
    /\ \A k \in 1..Len(sent) : sent[k] # selectedFile

====
